---- MODULE Spec2Model ----
(***************************************************************************)
(* Model of the sqlsprinkler client library: System (system.py) and Zone   *)
(* (zone.py), together with the remote controller they talk to.            *)
(*                                                                         *)
(* Each action is one public method call, from entry to return or raise.   *)
(* The remote controller is the environment: it keeps a zone list and a    *)
(* system state, and answers every request with a status code.             *)
(* Zone.host (zone.py:10) is taken to have been set by the caller to the   *)
(* controller's base URL, so that a Zone's requests reach the controller.  *)
(***************************************************************************)
EXTENDS Integers, Sequences, FiniteSets, TLC

\* Longest zone list the controller holds, and longest list given to System(...).
MaxZones == 2

\* The status the code compares every mutating response with.
HTTP_OK == 200

\* The statuses the controller answers with: success, and one that is not 200.
Statuses == {HTTP_OK, 500}

\* Python's None.
None == "None"

\* Zone ids the controller hands out; 0 is the dataclass default, never on the controller.
ZoneIds == 1..MaxZones
IdArgs == 0..MaxZones

VARIABLES
    zones,          \* System.zones: sequence of Zone records
    system_state,   \* System.system_state (dataclass field)
    state,          \* System.state (attribute set by _update_system_state)
    srvZones,       \* controller: the zone records the zone-info endpoint returns
    srvState,       \* controller: the system state the system-state endpoint returns
    call,           \* the last method call: [op, args]
    http,           \* the HTTP requests that call issued, in order
    raised,         \* the exception message that call raised, or None
    ret             \* the value that call returned, or None

vars == <<zones, system_state, state, srvZones, srvState, call, http, raised, ret>>

---------------------------------------------------------------------------
(* Zone records                                                            *)

\* The dataclass constructor, fields in declaration order.
Zone(name, gpio, time, enabled, auto_off, system_order, st, id) ==
    [name |-> name, gpio |-> gpio, time |-> time, enabled |-> enabled,
     auto_off |-> auto_off, system_order |-> system_order, state |-> st, id |-> id]

\* Zone(x): one positional argument lands in the first field, the rest are
\* the default_factory values str(), int(), bool().
ZonePositional(x) == Zone(x, 0, 0, FALSE, FALSE, 0, FALSE, 0)

\* The two configurations the zones of the model are given.
Front == [name |-> "Front", gpio |-> 4, time |-> 300, enabled |-> TRUE, auto_off |-> FALSE]
Back == [name |-> "Back", gpio |-> 17, time |-> 600, enabled |-> FALSE, auto_off |-> TRUE]

WithConfig(c, system_order, st, id) ==
    Zone(c.name, c.gpio, c.time, c.enabled, c.auto_off, system_order, st, id)

\* Zone i of a freshly installed controller.
CanonZone(i) == WithConfig(IF i % 2 = 1 THEN Front ELSE Back, i - 1, FALSE, i)
CanonList(n) == [i \in 1..n |-> CanonZone(i)]

Ids(zs) == [i \in DOMAIN zs |-> zs[i].id]
Reverse(s) == [i \in DOMAIN s |-> s[Len(s) + 1 - i]]
IsPermOf(order, zs) ==
    /\ Len(order) = Len(zs)
    /\ \A i \in DOMAIN zs : \E j \in DOMAIN order : order[j] = zs[i].id
    /\ \A i, j \in DOMAIN order : order[i] = order[j] => i = j

---------------------------------------------------------------------------
(* The controller                                                          *)

Renumber(zs) == [i \in DOMAIN zs |-> [zs[i] EXCEPT !.system_order = i - 1]]

SrvIndex(zs, id) == IF \E i \in DOMAIN zs : zs[i].id = id
                    THEN CHOOSE i \in DOMAIN zs : zs[i].id = id
                    ELSE 0

\* PUT zone-state {"id", "state"}
SrvSetZoneState(zs, id, st) ==
    [i \in DOMAIN zs |-> IF zs[i].id = id THEN [zs[i] EXCEPT !.state = st] ELSE zs[i]]

\* POST zone {"name","gpio","time","enabled","auto_off"}: stored under a fresh id.
SrvFreshId(zs) == CHOOSE id \in ZoneIds :
                    /\ \A i \in DOMAIN zs : zs[i].id # id
                    /\ \A other \in ZoneIds :
                          (\A i \in DOMAIN zs : zs[i].id # other) => id <= other
SrvAdd(zs, body) ==
    Append(zs, Zone(body.name, body.gpio, body.time, body.enabled, body.auto_off,
                    Len(zs), FALSE, SrvFreshId(zs)))

\* DELETE zone {"id"}
SrvDelete(zs, id) ==
    LET keep == {i \in DOMAIN zs : zs[i].id # id}
        nth[k \in 0..Len(zs)] ==
            IF k = 0 THEN 0
            ELSE CHOOSE i \in keep : i > nth[k - 1] /\ \A j \in keep : j > nth[k - 1] => i <= j
    IN Renumber([k \in 1..Cardinality(keep) |-> zs[nth[k]]])

\* PUT zone-order {"order": [ids]}
SrvReorder(zs, order) ==
    Renumber([k \in DOMAIN order |-> zs[SrvIndex(zs, order[k])]])

---------------------------------------------------------------------------
(* Requests                                                                *)

Request(method, url, json, status) ==
    [method |-> method, url |-> url, json |-> json, status |-> status]

Get(url) == Request("GET", url, None, HTTP_OK)

\* The status test as it would be with the comparison inverted.
Failed_inverted(status_code) == status_code = HTTP_OK

\* `if request.status_code != 200: raise Exception(...)`
Failed(status_code) == status_code # HTTP_OK

---------------------------------------------------------------------------
(* System                                                                  *)

\* _fetch_zones: GET zone-info, one Zone(zone) per record of the answer.
_fetch_zones(records) == [i \in DOMAIN records |-> ZonePositional(records[i])]

\* get_zone_by_id as it would be if a missing id fell back to the first zone.
get_zone_by_id_fallback(zs, zone_id) ==
    IF \E i \in DOMAIN zs : zs[i].id = zone_id
    THEN CHOOSE i \in DOMAIN zs :
            zs[i].id = zone_id /\ \A j \in DOMAIN zs : zs[j].id = zone_id => i <= j
    ELSE IF zs = <<>> THEN 0 ELSE 1

\* get_zone_by_id: the first zone of the list with that id, as its index; 0 is None.
get_zone_by_id(zs, zone_id) ==
    IF \E i \in DOMAIN zs : zs[i].id = zone_id
    THEN CHOOSE i \in DOMAIN zs :
            zs[i].id = zone_id /\ \A j \in DOMAIN zs : zs[j].id = zone_id => i <= j
    ELSE 0

Init ==
    /\ srvZones \in {CanonList(n) : n \in 0..MaxZones}
    /\ srvState \in BOOLEAN
    /\ zones \in {CanonList(n) : n \in 0..MaxZones}
    /\ state = srvState
    /\ system_state = srvState
    /\ call = [op |-> "__init__", args |-> <<>>]
    /\ http = <<Get("ZONE_INFO_URL"), Get("SYSTEM_STATE_URL")>>
    /\ raised = None
    /\ ret = None

get_zones ==
    LET fetched == _fetch_zones(srvZones)
    IN  /\ call' = [op |-> "get_zones", args |-> <<>>]
        /\ http' = <<Get("ZONE_INFO_URL")>>
        /\ raised' = None
        /\ ret' = zones
        /\ UNCHANGED <<zones, system_state, state, srvZones, srvState>>

\* get_system_state as it would be with `return self.system_state`.
get_system_state_field ==
    /\ call' = [op |-> "get_system_state", args |-> <<>>]
    /\ http' = <<Get("SYSTEM_STATE_URL")>>
    /\ state' = srvState
    /\ raised' = None
    /\ ret' = system_state
    /\ UNCHANGED <<zones, system_state, srvZones, srvState>>

\* get_system_state: _update_system_state() stores the answer of the GET in
\* self.state, which is returned.
get_system_state ==
    /\ call' = [op |-> "get_system_state", args |-> <<>>]
    /\ http' = <<Get("SYSTEM_STATE_URL")>>
    /\ state' = srvState
    /\ raised' = None
    /\ ret' = state'
    /\ UNCHANGED <<zones, system_state, srvZones, srvState>>

set_system_state ==
    \E b \in BOOLEAN, status \in Statuses, applied \in BOOLEAN :
        /\ applied => status = HTTP_OK
        /\ call' = [op |-> "set_system_state", args |-> <<b>>]
        /\ srvState' = IF applied THEN b ELSE srvState
        /\ ret' = None
        /\ IF Failed(status)
           THEN /\ http' = <<Request("PUT", "SYSTEM_STATE_URL", [system_state |-> b], status)>>
                /\ raised' = "Failed to set system state"
                /\ UNCHANGED state
           ELSE /\ http' = <<Request("PUT", "SYSTEM_STATE_URL", [system_state |-> b], status),
                             Get("SYSTEM_STATE_URL")>>
                /\ raised' = None
                /\ state' = srvState'
        /\ UNCHANGED <<zones, system_state, srvZones>>

\* Zone.turn_on / Zone.turn_off on zones[i]: set the local flag, PUT {"id", "state"},
\* and return whatever the status of the answer is.
ZoneSetState(i, st, status, applied) ==
    /\ zones' = [zones EXCEPT ![i].state = st]
    /\ srvZones' = IF applied THEN SrvSetZoneState(srvZones, zones[i].id, st) ELSE srvZones
    /\ UNCHANGED <<system_state, state, srvState>>

ZoneStatePut(id, st, status) == Request("PUT", "ZONE_URL", [id |-> id, state |-> st], status)

turn_on ==
    \E i \in DOMAIN zones, status \in Statuses, applied \in BOOLEAN :
        /\ applied => status = HTTP_OK
        /\ call' = [op |-> "turn_on", args |-> <<i>>]
        /\ ZoneSetState(i, TRUE, status, applied)
        /\ http' = <<ZoneStatePut(zones[i].id, TRUE, status)>>
        /\ raised' = None
        /\ ret' = None

\* turn_off as it would be if the flag were set only after a 200 answer.
turn_off_checked ==
    \E i \in DOMAIN zones, status \in Statuses, applied \in BOOLEAN :
        /\ applied => status = HTTP_OK
        /\ call' = [op |-> "turn_off", args |-> <<i>>]
        /\ IF status = HTTP_OK
           THEN ZoneSetState(i, FALSE, status, applied)
           ELSE UNCHANGED <<zones, srvZones, system_state, state, srvState>>
        /\ http' = <<ZoneStatePut(zones[i].id, FALSE, status)>>
        /\ raised' = None
        /\ ret' = None

turn_off ==
    \E i \in DOMAIN zones, status \in Statuses, applied \in BOOLEAN :
        /\ applied => status = HTTP_OK
        /\ call' = [op |-> "turn_off", args |-> <<i>>]
        /\ ZoneSetState(i, FALSE, status, applied)
        /\ http' = <<ZoneStatePut(zones[i].id, FALSE, status)>>
        /\ raised' = None
        /\ ret' = None

update_zone_state ==
    \E zone_id \in IdArgs, st \in BOOLEAN, status \in Statuses, applied \in BOOLEAN :
        LET zone == get_zone_by_id(zones, zone_id)
        IN  /\ applied => status = HTTP_OK
            /\ call' = [op |-> "update_zone_state", args |-> <<zone_id, st>>]
            /\ ret' = None
            /\ IF zone = 0
               THEN /\ ~applied /\ status = HTTP_OK
                    /\ raised' = "Zone not found"
                    /\ http' = <<>>
                    /\ UNCHANGED <<zones, system_state, state, srvZones, srvState>>
               ELSE LET fetched == _fetch_zones(srvZones')
                    IN  /\ ZoneSetState(zone, st, status, applied)
                        /\ http' = <<ZoneStatePut(zones[zone].id, st, status),
                                     Get("ZONE_INFO_URL")>>
                        /\ raised' = None

\* The Zone object a caller passes to add_zone: a new zone, with the default id.
NewZones == {WithConfig(Front, 0, FALSE, 0)}

\* The Zone objects a caller passes to update_zone: for each id, the configuration
\* the zone of that id does not start with.
EditedZones == {WithConfig(IF id % 2 = 1 THEN Back ELSE Front, 0, FALSE, id) : id \in IdArgs}

add_zone ==
    \E zone \in NewZones, status \in Statuses :
        LET zone_to_add == [name |-> zone.name, gpio |-> zone.gpio, time |-> zone.time,
                            enabled |-> zone.enabled, auto_off |-> zone.auto_off]
        IN  /\ status = HTTP_OK => Len(srvZones) < MaxZones
            /\ call' = [op |-> "add_zone", args |-> <<zone>>]
            /\ srvZones' = IF status = HTTP_OK THEN SrvAdd(srvZones, zone_to_add) ELSE srvZones
            /\ ret' = None
            /\ IF Failed(status)
               THEN /\ http' = <<Request("POST", "ZONE_URL", zone_to_add, status)>>
                    /\ raised' = "Failed to add zone"
               ELSE /\ http' = <<Request("POST", "ZONE_URL", zone_to_add, status),
                                 Get("ZONE_INFO_URL")>>
                    /\ raised' = None
            /\ zones' = zones
            /\ UNCHANGED <<system_state, state, srvState>>

\* delete_zone as it would be if it dropped the zone from self.zones.
delete_zone_dropping ==
    \E zone_id \in IdArgs, status \in Statuses :
        /\ call' = [op |-> "delete_zone", args |-> <<zone_id>>]
        /\ srvZones' = IF status = HTTP_OK THEN SrvDelete(srvZones, zone_id) ELSE srvZones
        /\ http' = <<Request("DELETE", "ZONE_URL", [id |-> zone_id], status)>>
        /\ raised' = IF Failed(status) THEN "Failed to delete zone" ELSE None
        /\ zones' = IF Failed(status) THEN zones
                    ELSE SelectSeq(zones, LAMBDA z : z.id # zone_id)
        /\ ret' = None
        /\ UNCHANGED <<system_state, state, srvState>>

delete_zone ==
    \E zone_id \in IdArgs, status \in Statuses :
        /\ call' = [op |-> "delete_zone", args |-> <<zone_id>>]
        /\ srvZones' = IF status = HTTP_OK THEN SrvDelete(srvZones, zone_id) ELSE srvZones
        /\ http' = <<Request("DELETE", "ZONE_URL", [id |-> zone_id], status)>>
        /\ raised' = IF Failed(status) THEN "Failed to delete zone" ELSE None
        /\ zones' = zones
        /\ ret' = None
        /\ UNCHANGED <<system_state, state, srvState>>

\* Zone.update(self): the positional parameters it declares.
update_params == <<"self">>

\* update_zone: zone.update(zone_to_update) binds `zone` to self and passes one
\* more argument; a call with more arguments than parameters raises TypeError
\* before the body runs. Zone.update would refresh `zone`, the caller's object,
\* from GET zone-info/<id>; get_zones() then returns self.zones.
update_zone ==
    \E zone \in EditedZones :
        LET zone_to_update == get_zone_by_id(zones, zone.id)
            passed == <<zone, zone_to_update>>
        IN  /\ call' = [op |-> "update_zone", args |-> <<zone>>]
            /\ raised' = IF zone_to_update = 0 THEN "Zone not found"
                          ELSE IF Len(passed) # Len(update_params) THEN "TypeError"
                          ELSE None
            /\ http' = IF raised' = None
                       THEN <<Get("ZONE_INFO_URL/id"), Get("ZONE_INFO_URL")>>
                       ELSE <<>>
            /\ ret' = None
            /\ UNCHANGED <<zones, system_state, state, srvZones, srvState>>

update_zone_order ==
    \E zone_order \in {Reverse(Ids(zones)), Reverse(Ids(srvZones))}, status \in Statuses :
        /\ status = HTTP_OK => IsPermOf(zone_order, srvZones)
        /\ call' = [op |-> "update_zone_order", args |-> <<zone_order>>]
        /\ srvZones' = IF status = HTTP_OK THEN SrvReorder(srvZones, zone_order) ELSE srvZones
        /\ ret' = None
        /\ IF Failed(status)
           THEN /\ http' = <<Request("PUT", "ZONE_ORDER_URL", [order |-> zone_order], status)>>
                /\ raised' = "Failed to update zone order"
           ELSE /\ http' = <<Request("PUT", "ZONE_ORDER_URL", [order |-> zone_order], status),
                             Get("ZONE_INFO_URL")>>
                /\ raised' = None
        /\ zones' = zones
        /\ UNCHANGED <<system_state, state, srvState>>

Next ==
    \/ get_zones
    \/ get_system_state
    \/ set_system_state
    \/ update_zone_state
    \/ add_zone
    \/ delete_zone
    \/ update_zone
    \/ update_zone_order
    \/ turn_on
    \/ turn_off

Spec == Init /\ [][Next]_vars

---------------------------------------------------------------------------
(* Properties                                                              *)

SameFields(zone, record) ==
    /\ zone.id = record.id
    /\ zone.name = record.name
    /\ zone.gpio = record.gpio
    /\ zone.time = record.time
    /\ zone.enabled = record.enabled
    /\ zone.auto_off = record.auto_off
    /\ zone.system_order = record.system_order
    /\ zone.state = record.state

SameAsServer(zs, records) ==
    /\ Len(zs) = Len(records)
    /\ \A i \in DOMAIN zs : SameFields(zs[i], records[i])

HasId(zs, id) == \E i \in DOMAIN zs : zs[i].id = id

\* C1: after construction and after get_zones(), System.zones (and the list
\* get_zones() returned) has the length and order of the list the zone-info
\* endpoint answered, with every field of the i-th zone equal to the i-th record.
C1_ZonesMirrorServer ==
    /\ call.op \in {"__init__", "get_zones"} => SameAsServer(zones, srvZones)
    /\ call.op = "get_zones" => SameAsServer(ret, srvZones)

\* C2: get_system_state() returns the value the controller answers on its GET;
\* right after a set_system_state(b) that the controller answered with 200 and
\* stored, that value is b.
C2_ReadAfterWrite ==
    [][call'.op = "get_system_state" =>
         /\ raised' = None
         /\ ret' = srvState'
         /\ (call.op = "set_system_state" /\ raised = None /\ srvState = call.args[1])
                => ret' = call.args[1]]_vars

\* C2 witness: get_system_state() returned a value the controller was given by
\* set_system_state after construction (the constructor's value is the other one).
C2_Witness ==
    /\ call.op = "get_system_state"
    /\ ret = srvState
    /\ ret # system_state

\* C3: update_zone_state(zone_id, s) with a zone_id that no zone of System.zones
\* has raises the not-found error, issues no request and leaves System.zones as it was.
C3_UnknownIdNoRequest ==
    [][(call'.op = "update_zone_state" /\ ~HasId(zones, call'.args[1])) =>
         /\ raised' = "Zone not found"
         /\ http' = <<>>
         /\ zones' = zones]_vars

\* C3 witness: the not-found error was raised against a non-empty zone list.
C3_Witness ==
    /\ call.op = "update_zone_state"
    /\ zones # <<>>
    /\ ~HasId(zones, call.args[1])
    /\ raised = "Zone not found"
    /\ http = <<>>

\* C4: after add_zone(z) succeeded, System.zones contains a zone with the name,
\* gpio, time, enabled and auto_off of z.
C4_AddedZoneListed ==
    (call.op = "add_zone" /\ raised = None) =>
        \E i \in DOMAIN zones :
            /\ zones[i].name = call.args[1].name
            /\ zones[i].gpio = call.args[1].gpio
            /\ zones[i].time = call.args[1].time
            /\ zones[i].enabled = call.args[1].enabled
            /\ zones[i].auto_off = call.args[1].auto_off

MutatingOps == {"set_system_state", "add_zone", "delete_zone", "update_zone_order"}

\* C5: when the controller answers a status other than 200 to set_system_state,
\* add_zone, delete_zone or update_zone_order, the call raises, issues no further
\* request, and leaves zones, state and system_state as they were.
C5_FailureLeavesFields ==
    [][(call'.op \in MutatingOps /\ http'[1].status # HTTP_OK) =>
         /\ raised' # None
         /\ Len(http') = 1
         /\ zones' = zones
         /\ state' = state
         /\ system_state' = system_state]_vars

\* C5 witness: a mutating call was answered 500 while the controller's list
\* differs from the local one.
C5_Witness ==
    /\ call.op \in MutatingOps
    /\ http[1].status = 500
    /\ raised # None
    /\ zones # <<>>
    /\ zones # srvZones

\* C6: when update_zone_state(zone_id, s) returns for a known zone_id, it has
\* sent the zone-state PUT with that id and s, then the zone-info GET, and
\* System.zones equals the controller's list; the state held for zone_id is the
\* state the controller reports for it.
C6_RefreshedAfterUpdate ==
    (call.op = "update_zone_state" /\ raised = None) =>
        /\ Len(http) = 2
        /\ http[1].method = "PUT"
        /\ http[1].json = [id |-> call.args[1], state |-> call.args[2]]
        /\ http[2] = Get("ZONE_INFO_URL")
        /\ SameAsServer(zones, srvZones)
        /\ \A i \in DOMAIN zones, j \in DOMAIN srvZones :
              (zones[i].id = call.args[1] /\ srvZones[j].id = call.args[1])
                  => zones[i].state = srvZones[j].state

\* C7: update_zone(zone) with an id that System.zones has sends one PUT to the
\* zone-update endpoint carrying the id and the six values of the given zone,
\* then the zone-info GET, and raises nothing; with an id it does not have it
\* raises the not-found error and sends nothing.
C7_UpdateZonePushes ==
    [][call'.op = "update_zone" =>
         IF HasId(zones, call'.args[1].id)
         THEN /\ raised' = None
              /\ Len(http') = 2
              /\ http'[1].method = "PUT"
              /\ http'[1].url = "ZONE_UPDATE_URL"
              /\ http'[1].json = [id |-> call'.args[1].id,
                                  Name |-> call'.args[1].name,
                                  GPIO |-> call'.args[1].gpio,
                                  Time |-> call'.args[1].time,
                                  Enabled |-> call'.args[1].enabled,
                                  Autooff |-> call'.args[1].auto_off,
                                  SystemOrder |-> call'.args[1].system_order]
              /\ http'[2] = Get("ZONE_INFO_URL")
         ELSE /\ raised' = "Zone not found"
              /\ http' = <<>>]_vars

\* C8: a delete_zone(zone_id) that succeeds issues one request, the DELETE, and
\* leaves System.zones as it was: get_zone_by_id(zone_id) finds what it found before.
C8_DeleteKeepsLocalList ==
    [][(call'.op = "delete_zone" /\ raised' = None) =>
         /\ Len(http') = 1
         /\ http'[1].method = "DELETE"
         /\ http'[1].json = [id |-> call'.args[1]]
         /\ zones' = zones
         /\ get_zone_by_id(zones', call'.args[1]) = get_zone_by_id(zones, call'.args[1])]_vars

\* C8 witness: the controller deleted a zone that System.zones still holds.
C8_Witness ==
    /\ call.op = "delete_zone"
    /\ raised = None
    /\ HasId(zones, call.args[1])
    /\ ~HasId(srvZones, call.args[1])
    /\ get_zone_by_id(zones, call.args[1]) # 0

\* C9: whatever status the controller answers, turn_on() leaves the zone's state
\* True and turn_off() leaves it False, no other field of any zone changes, and
\* nothing is raised.
C9_FireAndForget ==
    [][call'.op \in {"turn_on", "turn_off"} =>
         /\ zones' = [zones EXCEPT ![call'.args[1]].state = (call'.op = "turn_on")]
         /\ raised' = None]_vars

\* C9 witness: turn_off() was answered 500; the zone is off locally and still
\* on at the controller, and nothing was raised.
C9_Witness ==
    /\ call.op = "turn_off"
    /\ http[1].status = 500
    /\ raised = None
    /\ zones[call.args[1]].state = FALSE
    /\ \E j \in DOMAIN srvZones :
          srvZones[j].id = zones[call.args[1]].id /\ srvZones[j].state = TRUE

\* C10: after construction and after every set_system_state that succeeded,
\* system_state is the value the last system-state GET answered; it is never
\* older than what get_system_state() last returned.
C10_FieldTracksServer ==
    /\ (call.op = "__init__" \/ (call.op = "set_system_state" /\ raised = None))
          => system_state = srvState
    /\ call.op = "get_system_state" => system_state = ret

====
